---- MODULE Spec2Model ----
(***************************************************************************)
(* SahaAI: the response-normalisation (Extractor) and financial-scoring    *)
(* (Scorer) code of src/main.py and src/cfo_api.py, with the three         *)
(* handlers that reach it: POST /financial-score, POST /goal-planner and   *)
(* POST /chat.                                                             *)
(*                                                                         *)
(* Numbers.  The handlers compute on Python floats.  Every amount of the   *)
(* model is an integer far below 2^53, so sums and differences are exact;  *)
(* a quotient a / b is kept as the reduced fraction <<n, d>> with d > 0.   *)
(* IEEE division is correctly rounded and monotone, so comparing the float *)
(* quotient with the literals 0.1, 0.2, 0.25, 0.3, 0.4 gives the same      *)
(* answer as comparing the exact fraction with 1/10, 1/5, 1/4, 3/10, 2/5   *)
(* for operands of this size.                                              *)
(***************************************************************************)
EXTENDS Integers, Sequences, FiniteSets, TLC

VARIABLES op, args, gen, raw, parsed, resp

vars == <<op, args, gen, raw, parsed, resp>>

\* ------------------------------------------------------------- bounds
\* Amounts are multiples of 5000 from -NegUnits * 5000 to MaxUnits * 5000.
NegUnits == 2
MaxUnits == 12
\* Goal amounts are multiples of 300000 up to MaxGoalUnits * 300000.
MaxGoalUnits == 2
\* years ranges over 0..MaxYears (GoalInput.years is an unvalidated int).
MaxYears == 5

Amounts == {k * 5000 : k \in (0 - NegUnits)..MaxUnits}
GoalAmounts == {k * 300000 : k \in 0..MaxGoalUnits}
Years == 0..MaxYears

\* ------------------------------------------------------------ fractions
Abs(x) == IF x < 0 THEN 0 - x ELSE x

RECURSIVE Gcd(_, _)
Gcd(a, b) == IF b = 0 THEN a ELSE Gcd(b, a % b)

\* n / d for d # 0, as a reduced fraction with a positive denominator.
Frac(n, d) ==
    LET g == Gcd(Abs(n), Abs(d))
        s == IF d < 0 THEN 0 - 1 ELSE 1
    IN  <<(s * n) \div g, (s * d) \div g>>

Zero == <<0, 1>>
FracLT(a, b) == a[1] * b[2] < b[1] * a[2]
FracLE(a, b) == a[1] * b[2] <= b[1] * a[2]

\* round(x * 100, 2) for the fraction x: the nearest multiple of 1/100 of
\* 100 x, a tie going to the even neighbour.
RoundPercent(x) ==
    LET n == x[1] * 10000
        d == x[2]
        q == n \div d
        r == n - q * d
        h == IF 2 * r < d THEN q
             ELSE IF 2 * r > d THEN q + 1
             ELSE IF q % 2 = 0 THEN q ELSE q + 1
    IN  Frac(h, 100)

\* ------------------------------------------------------------- Scorer
\* Policy B with the first deduction added instead of subtracted.
calculate_financial_score_plus(income, expenses, emi) ==
    LET savings == income - expenses - emi
        savings_ratio == IF income # 0 THEN Frac(savings, income) ELSE Zero
        dti == IF income # 0 THEN Frac(emi, income) ELSE Zero
        s0 == 100
        s1 == IF FracLT(savings_ratio, <<1, 10>>) THEN s0 + 30
              ELSE IF FracLT(savings_ratio, <<1, 5>>) THEN s0 - 15
              ELSE s0
        s2 == IF FracLT(<<2, 5>>, dti) THEN s1 - 25
              ELSE IF FracLT(<<3, 10>>, dti) THEN s1 - 15
              ELSE s1
        s3 == IF savings < 0 THEN s2 - 20 ELSE s2
        score == IF s3 > 0 THEN s3 ELSE 0
    IN  [score |-> score, savings |-> savings, dti_percent |-> RoundPercent(dti)]

\* Policy B with savings_ratio <= 0.2 in place of savings_ratio < 0.2.
calculate_financial_score_le(income, expenses, emi) ==
    LET savings == income - expenses - emi
        savings_ratio == IF income # 0 THEN Frac(savings, income) ELSE Zero
        dti == IF income # 0 THEN Frac(emi, income) ELSE Zero
        s0 == 100
        s1 == IF FracLT(savings_ratio, <<1, 10>>) THEN s0 - 30
              ELSE IF FracLE(savings_ratio, <<1, 5>>) THEN s0 - 15
              ELSE s0
        s2 == IF FracLT(<<2, 5>>, dti) THEN s1 - 25
              ELSE IF FracLT(<<3, 10>>, dti) THEN s1 - 15
              ELSE s1
        s3 == IF savings < 0 THEN s2 - 20 ELSE s2
        score == IF s3 > 0 THEN s3 ELSE 0
    IN  [score |-> score, savings |-> savings, dti_percent |-> RoundPercent(dti)]

\* Policy B, src/cfo_api.py: "x if income else 0" tests income for being
\* non-zero, so a negative income is divided by.
calculate_financial_score(income, expenses, emi) ==
    LET savings == income - expenses - emi
        savings_ratio == IF income # 0 THEN Frac(savings, income) ELSE Zero
        dti == IF income # 0 THEN Frac(emi, income) ELSE Zero
        s0 == 100
        s1 == IF FracLT(savings_ratio, <<1, 10>>) THEN s0 - 30
              ELSE IF FracLT(savings_ratio, <<1, 5>>) THEN s0 - 15
              ELSE s0
        s2 == IF FracLT(<<2, 5>>, dti) THEN s1 - 25
              ELSE IF FracLT(<<3, 10>>, dti) THEN s1 - 15
              ELSE s1
        s3 == IF savings < 0 THEN s2 - 20 ELSE s2
        score == IF s3 > 0 THEN s3 ELSE 0
    IN  [score |-> score, savings |-> savings, dti_percent |-> RoundPercent(dti)]

\* Policy A with dti >= 0.4 in place of dti > 0.4.
analyze_financial_data_ge(income, expenses, emi) ==
    LET savings == income - expenses - emi
        dti == IF income > 0 THEN Frac(emi, income) ELSE Zero
        risk == IF FracLE(<<2, 5>>, dti) THEN "High Risk"
                ELSE IF FracLT(<<1, 4>>, dti) THEN "Moderate Risk"
                ELSE "Low Risk"
        advice == IF savings < 0
                    THEN "You are overspending. Reduce expenses immediately."
                  ELSE IF 5 * savings < income
                    THEN "Increase savings. Try to save at least 20% of income."
                  ELSE "Your financial health looks stable."
    IN  [savings |-> savings, dti_percent |-> RoundPercent(dti),
         risk_level |-> risk, advice |-> advice]

\* Policy A, src/main.py: the guard is income > 0.
analyze_financial_data(income, expenses, emi) ==
    LET savings == income - expenses - emi
        dti == IF income > 0 THEN Frac(emi, income) ELSE Zero
        risk == IF FracLT(<<2, 5>>, dti) THEN "High Risk"
                ELSE IF FracLT(<<1, 4>>, dti) THEN "Moderate Risk"
                ELSE "Low Risk"
        advice == IF savings < 0
                    THEN "You are overspending. Reduce expenses immediately."
                  ELSE IF 5 * savings < income
                    THEN "Increase savings. Try to save at least 20% of income."
                  ELSE "Your financial health looks stable."
    IN  [savings |-> savings, dti_percent |-> RoundPercent(dti),
         risk_level |-> risk, advice |-> advice]

\* ----------------------------------------------------------- requests
NoArgs == [income |-> 0, expenses |-> 0, emi |-> 0, goal_amount |-> 0, years |-> 0]
ScoreArgs(i, e, m) == [NoArgs EXCEPT !.income = i, !.expenses = e, !.emi = m]

NoResp == [status |-> 0]
Ok(body) == [status |-> 200, body |-> body]
HttpError(detail) == [status |-> 500, detail |-> detail]

\* What the upstream generator does when a handler calls it: it raises,
\* or returns a response whose text is None, or returns a text.
GenFails == [kind |-> "raises", text |-> <<>>]
GenNone == [kind |-> "none", text |-> <<>>]
GenText(t) == [kind |-> "text", text |-> t]

\* POST /financial-score, src/cfo_api.py: ScoreInput is three floats and
\* nothing more; the handler returns the scorer's result.
financial_score(data) ==
    Ok(calculate_financial_score(data.income, data.expenses, data.emi))

\* The goal planner with savings < 0 in place of savings <= 0.
goal_planner_lt(data, g) ==
    LET savings == data.income - data.expenses - data.emi
        months == data.years * 12
    IN  IF savings < 0
          THEN [called |-> FALSE,
                resp |-> Ok([error |-> "No savings available for planning."])]
        ELSE IF months = 0
          THEN [called |-> FALSE, resp |-> HttpError(<<"ZeroDivisionError">>)]
        ELSE IF g.kind = "raises"
          THEN [called |-> TRUE, resp |-> HttpError(<<"generator raised">>)]
        ELSE [called |-> TRUE,
              resp |-> Ok([required_monthly_saving |-> Frac(data.goal_amount, months),
                           analysis |-> IF g.kind = "none" THEN <<"None">>
                                        ELSE <<"text", g.text>>])]

\* POST /goal-planner, src/cfo_api.py.  g is what the generator does if it
\* is called.  An exception leaving the handler is answered by the framework
\* with status 500.  The result is [called, resp]: whether the generator was
\* invoked, and the response.
goal_planner(data, g) ==
    LET savings == data.income - data.expenses - data.emi
        months == data.years * 12
    IN  IF savings <= 0
          THEN [called |-> FALSE,
                resp |-> Ok([error |-> "No savings available for planning."])]
        ELSE IF months = 0
          THEN [called |-> FALSE, resp |-> HttpError(<<"ZeroDivisionError">>)]
        ELSE IF g.kind = "raises"
          THEN [called |-> TRUE, resp |-> HttpError(<<"generator raised">>)]
        ELSE [called |-> TRUE,
              resp |-> Ok([required_monthly_saving |-> Frac(data.goal_amount, months),
                           analysis |-> IF g.kind = "none" THEN <<"None">>
                                        ELSE <<"text", g.text>>])]

\* ---------------------------------------------------------- Extractor
\* A text is a sequence of one-character strings.  Python indexes from 0,
\* the sequences here from 1; error positions are reported as Python's.
\* The backtick character (a TLA+ string cannot hold one).
Backtick == "BACKTICK"
Whitespace == {" ", "\n"}
Digits == <<"0", "1", "2", "3", "4", "5", "6", "7", "8", "9">>
IsDigit(c) == \E k \in 1..10 : Digits[k] = c
DigitVal(c) == (CHOOSE k \in 1..10 : Digits[k] = c) - 1

\* The character at index i, "" past the end.
CharAt(t, i) == IF i >= 1 /\ i <= Len(t) THEN t[i] ELSE ""

\* The number of whitespace characters in a row from index i on.
RECURSIVE WsRun(_, _)
WsRun(t, i) == IF CharAt(t, i) \in Whitespace THEN 1 + WsRun(t, i + 1) ELSE 0

\* str.strip()
RECURSIVE RStrip(_)
RStrip(t) == IF Len(t) > 0 /\ t[Len(t)] \in Whitespace
               THEN RStrip(SubSeq(t, 1, Len(t) - 1)) ELSE t
Strip(t) == LET w == WsRun(t, 1) IN RStrip(SubSeq(t, w + 1, Len(t)))

FenceAt(t, i) ==
    CharAt(t, i) = Backtick /\ CharAt(t, i + 1) = Backtick /\ CharAt(t, i + 2) = Backtick
TagAt(t, i) == /\ CharAt(t, i) = "j" /\ CharAt(t, i + 1) = "s"
               /\ CharAt(t, i + 2) = "o" /\ CharAt(t, i + 3) = "n"

\* The group lengths n for which the rest of the pattern, \s*```, matches
\* after a group that starts at index p.
GroupLens(t, p) ==
    {n \in 0..Len(t) : \E w2 \in 0..WsRun(t, p + n) : FenceAt(t, p + n + w2)}

\* The ways the pattern ```(?:json)?\s*([\s\S]*?)\s*``` matches at index i:
\* <<tag, w, n>> for the tag's length (4 or 0), the whitespace taken by the
\* first \s* and the length of the group.
MatchesAt(t, i) ==
    IF ~FenceAt(t, i) THEN {}
    ELSE UNION {UNION {{<<tag, w, n>> : n \in GroupLens(t, i + 3 + tag + w)} :
                          w \in 0..WsRun(t, i + 3 + tag)} :
                   tag \in {0} \cup (IF TagAt(t, i + 3) THEN {4} ELSE {})}

\* The backtracking order: (?:json)? and the first \s* are greedy, the group
\* is lazy.
Preferred(m, n) ==
    \/ m[1] > n[1]
    \/ m[1] = n[1] /\ m[2] > n[2]
    \/ m[1] = n[1] /\ m[2] = n[2] /\ m[3] <= n[3]

\* The preferred match at index i, as the text of group 1.
group_at(t, i, m) == <<"group", SubSeq(t, i + 3 + m[1] + m[2], i + 2 + m[1] + m[2] + m[3])>>

best_at(t, i, M) == group_at(t, i, CHOOSE a \in M : \A b \in M : Preferred(a, b))

\* re.search: the match at the leftmost index that has one; <<"none">>, or
\* <<"group", the text of group 1>>.
leftmost(t, starts) ==
    IF starts = {} THEN <<"none">>
    ELSE best_at(t, CHOOSE a \in starts : \A b \in starts : a <= b,
                 MatchesAt(t, CHOOSE a \in starts : \A b \in starts : a <= b))

re_search(t) == leftmost(t, {i \in 1..Len(t) : MatchesAt(t, i) # {}})

\* JSON values: <<"null">>, <<"num", n>>, <<"str", chars>>, <<"obj", f>> with
\* f a function from keys (texts) to values.  The decoder below covers what
\* the texts of the model contain: whitespace, objects, strings without
\* escapes, integers and null.
JNull == <<"null">>
JNum(n) == <<"num", n>>
JStr(s) == <<"str", s>>
JObj(f) == <<"obj", f>>

\* A list of <<key, value>> members as a dict: a repeated key keeps its last
\* value.
ToDict(members) ==
    [k \in {members[j][1] : j \in DOMAIN members} |->
        LET last == CHOOSE j \in DOMAIN members :
                      /\ members[j][1] = k
                      /\ \A l \in DOMAIN members : members[l][1] = k => l <= j
        IN  members[last][2]]

\* The end of the digit run starting at index i.
RECURSIVE DigitsEnd(_, _)
DigitsEnd(t, i) == IF IsDigit(CharAt(t, i)) THEN DigitsEnd(t, i + 1) ELSE i

RECURSIVE DigitsValue(_, _, _)
DigitsValue(t, i, j) ==
    IF j < i THEN 0 ELSE 10 * DigitsValue(t, i, j - 1) + DigitVal(t[j])

\* scanstring from index i, just after the opening quote: <<"ok", JStr, next>>
\* or an error at the opening quote or at a control character.
RECURSIVE StringEnd(_, _)
StringEnd(t, i) ==
    IF i > Len(t) THEN 0
    ELSE IF t[i] = "\"" \/ t[i] = "\n" THEN i
    ELSE StringEnd(t, i + 1)

scanstring(t, i) ==
    LET e == StringEnd(t, i)
    IN  IF e = 0 THEN <<"err", "Unterminated string starting at", i - 2>>
        ELSE IF t[e] = "\n" THEN <<"err", "Invalid control character at", e - 1>>
        ELSE <<"ok", JStr(SubSeq(t, i, e - 1)), e + 1>>

\* The integer at index i: -?(0|[1-9][0-9]*)
match_number(t, i) ==
    LET j == IF CharAt(t, i) = "-" THEN i + 1 ELSE i
        e == IF CharAt(t, j) = "0" THEN j + 1 ELSE DigitsEnd(t, j)
        v == DigitsValue(t, j, e - 1)
    IN  IF e = j THEN <<"err", "Expecting value", i - 1>>
        ELSE <<"ok", JNum(IF j > i THEN 0 - v ELSE v), e>>

RECURSIVE scan_once(_, _)
RECURSIVE parse_members(_, _, _)

\* The object's members, in the steps of the decoder's loop.  After a value:
\* d is the index after the value and the whitespace behind it, all the
\* members read so far.
members_delimiter(t, d, all) ==
    IF CharAt(t, d) = "}" THEN <<"ok", JObj(ToDict(all)), d + 1>>
    ELSE IF CharAt(t, d) # "," THEN <<"err", "Expecting ',' delimiter", d - 1>>
    ELSE parse_members(t, d + 1 + WsRun(t, d + 1), all)

\* v is the result of reading the value of key.
members_value(t, key, v, acc) ==
    IF v[1] = "err" THEN v
    ELSE members_delimiter(t, v[3] + WsRun(t, v[3]), Append(acc, <<key, v[2]>>))

\* c is the index after the key and the whitespace behind it.
members_colon(t, key, c, acc) ==
    IF CharAt(t, c) # ":" THEN <<"err", "Expecting ':' delimiter", c - 1>>
    ELSE members_value(t, key, scan_once(t, c + 1 + WsRun(t, c + 1)), acc)

\* k is the result of reading the key.
members_key(t, k, acc) ==
    IF k[1] = "err" THEN k
    ELSE members_colon(t, k[2][2], k[3] + WsRun(t, k[3]), acc)

\* The members of an object from index i (a key is due), after the members
\* acc: <<"ok", JObj, next>> or an error.
parse_members(t, i, acc) ==
    IF CharAt(t, i) # "\""
      THEN <<"err", "Expecting property name enclosed in double quotes", i - 1>>
    ELSE members_key(t, scanstring(t, i + 1), acc)

\* j is the index after the brace and the whitespace behind it.
parse_object(t, j) ==
    IF CharAt(t, j) = "}" THEN <<"ok", JObj(<<>>), j + 1>>
    ELSE parse_members(t, j, <<>>)

\* One JSON value at index i.
scan_once(t, i) ==
    IF CharAt(t, i) = "\"" THEN scanstring(t, i + 1)
    ELSE IF CharAt(t, i) = "{" THEN parse_object(t, i + 1 + WsRun(t, i + 1))
    ELSE IF CharAt(t, i) = "n" /\ CharAt(t, i + 1) = "u" /\ CharAt(t, i + 2) = "l"
            /\ CharAt(t, i + 3) = "l"
      THEN <<"ok", JNull, i + 4>>
    ELSE match_number(t, i)

\* The line and column str(JSONDecodeError) reports for position pos.
RECURSIVE CountNewlines(_, _)
CountNewlines(t, n) ==
    IF n = 0 THEN 0 ELSE CountNewlines(t, n - 1) + (IF t[n] = "\n" THEN 1 ELSE 0)

RECURSIVE LastNewline(_, _)
LastNewline(t, n) == IF n = 0 THEN 0 ELSE IF t[n] = "\n" THEN n ELSE LastNewline(t, n - 1)

\* JSONDecodeError(msg, doc, pos): its msg, lineno, colno, pos and doc.
DecodeError(t, msg, pos) ==
    <<"err", msg, CountNewlines(t, pos) + 1, pos - LastNewline(t, pos) + 1, pos, t>>

\* json.loads: <<"ok", value>>, or <<"err", msg, lineno, colno, pos, doc>> for the
\* JSONDecodeError it raises.  v is the result of reading one value, e the
\* index after it and the whitespace behind it.
loads_end(t, v, e) ==
    IF e <= Len(t) THEN DecodeError(t, "Extra data", e - 1) ELSE <<"ok", v[2]>>

loads_value(t, v) ==
    IF v[1] = "err" THEN DecodeError(t, v[2], v[3])
    ELSE loads_end(t, v, v[3] + WsRun(t, v[3]))

json_loads(t) == loads_value(t, scan_once(t, 1 + WsRun(t, 1)))

\* match is the result of re.search on the stripped text t.
parse_matched(t, match) ==
    json_loads(IF match[1] = "group" THEN Strip(match[2]) ELSE t)

stripped_parse(t) == parse_matched(t, re_search(t))

_parse_json_from_text(text) == stripped_parse(Strip(text))

\* -------------------------------------------------------------- /chat
KIncome == <<"i", "n", "c", "o", "m", "e">>
KExpenses == <<"e", "x", "p", "e", "n", "s", "e", "s">>
KEmi == <<"e", "m", "i">>

\* structured_data.get(key, 0)
dict_get(d, key) == IF key \in DOMAIN d THEN d[key] ELSE JNum(0)

\* float(v): <<"ok", number>>, or the exception raised.  float(None) and
\* float(dict) raise TypeError; float of a string raises ValueError unless
\* the string spells a number, which no string of the model does.
py_float(v) ==
    IF v[1] = "num" THEN <<"ok", v[2]>>
    ELSE IF v[1] = "str" THEN <<"err", "ValueError">>
    ELSE <<"err", "TypeError">>

\* POST /chat, src/main.py.  g is what the generator does.  Only the call of
\* the generator and of the Extractor is inside the try; an exception raised
\* after it leaves the handler and the framework answers with status 500.
\* The result is [parsed, args, resp]: the Extractor's result, the coerced
\* inputs (NoArgs when the handler did not get that far), and the response.
chat_failed(p, detail) == [parsed |-> p, args |-> NoArgs, resp |-> HttpError(detail)]

\* income, expenses, emi are the results of the three float() calls on the
\* mapping p[2].
chat_analyze(p, income, expenses, emi) ==
    IF income[1] = "err" THEN chat_failed(p, <<"Internal Server Error", income[2]>>)
    ELSE IF expenses[1] = "err"
      THEN chat_failed(p, <<"Internal Server Error", expenses[2]>>)
    ELSE IF emi[1] = "err" THEN chat_failed(p, <<"Internal Server Error", emi[2]>>)
    ELSE [parsed |-> p,
          args |-> ScoreArgs(income[2], expenses[2], emi[2]),
          resp |-> Ok([structured_data |-> p[2],
                       analysis |-> analyze_financial_data(
                                        income[2], expenses[2], emi[2])])]

\* p is the Extractor's result.  The detail of the 500 is str(e): the
\* message, line, column and position, not the text.
chat_coerce(p) ==
    IF p[1] = "err"
      THEN chat_failed(p, <<"Gemini API Error", p[2], p[3], p[4], p[5]>>)
    ELSE IF p[2][1] # "obj"
      THEN chat_failed(p, <<"Internal Server Error", "AttributeError">>)
    ELSE chat_analyze(p, py_float(dict_get(p[2][2], KIncome)),
                         py_float(dict_get(p[2][2], KExpenses)),
                         py_float(dict_get(p[2][2], KEmi)))

chat_with_sahaai(g) ==
    IF g.kind = "raises"
      THEN chat_failed(<<"none">>, <<"Gemini API Error", "generator raised">>)
    ELSE IF g.kind = "none"
      THEN chat_failed(<<"none">>, <<"Gemini API Error", "AttributeError">>)
    ELSE chat_coerce(_parse_json_from_text(g.text))

\* ------------------------------------------- what the generator returns
\* json.dumps of an object given as its list of <<key, value>> members, the
\* values being null, integers or strings of StrChars: {"k": v, "k": v}
RECURSIVE NatChars(_)
NatChars(n) == IF n < 10 THEN <<Digits[n + 1]>>
               ELSE Append(NatChars(n \div 10), Digits[(n % 10) + 1])

DumpsValue(v) ==
    IF v[1] = "null" THEN <<"n", "u", "l", "l">>
    ELSE IF v[1] = "num"
      THEN (IF v[2] < 0 THEN <<"-">> \o NatChars(0 - v[2]) ELSE NatChars(v[2]))
    ELSE <<"\"">> \o v[2] \o <<"\"">>

RECURSIVE DumpsMembers(_)
DumpsMembers(ms) ==
    IF ms = <<>> THEN <<>>
    ELSE <<"\"">> \o ms[1][1] \o <<"\"", ":", " ">> \o DumpsValue(ms[1][2])
         \o (IF Len(ms) > 1 THEN <<",", " ">> ELSE <<>>) \o DumpsMembers(Tail(ms))

Dumps(ms) == <<"{">> \o DumpsMembers(ms) \o <<"}">>

Fence == <<Backtick, Backtick, Backtick>>
\* ```json\n ... \n```
Fenced(t) == Fence \o <<"j", "s", "o", "n", "\n">> \o t \o <<"\n">> \o Fence

\* The objects a /chat answer may carry: each of income, expenses, emi is
\* absent, null or a number.
ChatNums == {0 - 5000, 0, 20000}
ChatValues == {<<"absent">>, JNull} \cup {JNum(n) : n \in ChatNums}
Member(k, v) == IF v = <<"absent">> THEN <<>> ELSE <<<<k, v>>>>
ChatObjects ==
    {Member(KIncome, a) \o Member(KExpenses, b) \o Member(KEmi, c) :
        a \in ChatValues, b \in ChatValues, c \in ChatValues}

\* Objects with one string field, the string of at most MaxStrLen characters
\* drawn from a letter and the backtick.
MaxStrLen == 6
StrChars == {"a", Backtick}
Strs == UNION {[1..n -> StrChars] : n \in 0..MaxStrLen}
StrObjects == {<<<<(<<"a">>), JStr(s)>>>> : s \in Strs}

Objects == ChatObjects \cup StrObjects

\* Texts that are neither: empty and blank ones, prose, broken JSON, JSON
\* that is not an object, a fence without tag, prose around a fence, two
\* fenced blocks.
Sample == <<<<KIncome, JNum(20000)>>, <<KEmi, JNum(5000)>>>>
OtherTexts ==
    { <<>>, <<" ">>, <<"\n", " ">>, <<"a">>, <<"a", " ", "a">>, <<"{">>, <<"}">>,
      <<"{", "}">>, <<"5">>, <<"0", "5">>, <<"-">>, <<"n", "u", "l", "l">>,
      <<"n", "u">>, <<"\"", "a", "\"">>, <<"\"", "a">>, <<"\"", "a", "\n", "\"">>,
      Fence, Fence \o Fence, Fenced(<<>>), Fenced(<<"a">>),
      <<"{", "\"", "a", "\"", "}">>,
      <<"{", "\"", "a", "\"", ":", "}">>,
      <<"{", "\"", "a", "\"", ":", "5", ",", "}">>,
      <<"{", "\"", "a", "\"", ":", "5", " ", "5", "}">>,
      <<"{", "\"", "a", "\"", ":", "5", ",", "\"", "a", "\"", ":", "n", "u", "l", "l", "}">>,
      <<"{", "\"", "a", "\"", ":", " ", "{", "\"", "a", "\"", ":", "5", "}", "}">>,
      Dumps(Sample) \o <<" ", "a">>,
      Fence \o Dumps(Sample) \o Fence,
      Fence \o <<" ", "\n">> \o Dumps(Sample) \o <<" ", " ">> \o Fence,
      <<"a", " ">> \o Fenced(Dumps(Sample)) \o <<" ", "a">>,
      Fenced(Dumps(Sample)) \o <<"\n">> \o Fenced(Dumps(<<>>)),
      Fenced(<<"a">>) \o <<"\n">> \o Fenced(Dumps(Sample)) }

ChatTexts == {Dumps(x) : x \in Objects} \cup {Fenced(Dumps(x)) : x \in Objects}
             \cup OtherTexts
ChatGen == {GenFails, GenNone} \cup {GenText(t) : t \in ChatTexts}

\* ----------------------------------------------- ScorerSpec: the scorers
\* The two scoring functions applied to drawn inputs.
ScorerInit ==
    /\ op = "drawn"
    /\ \E i \in Amounts, e \in Amounts, m \in Amounts : args = ScoreArgs(i, e, m)
    /\ gen = "not_called"
    /\ raw = <<>>
    /\ parsed = <<"none">>
    /\ resp = NoResp

ApplyAnalyze ==
    /\ op = "drawn"
    /\ op' = "analyze_financial_data"
    /\ resp' = Ok(analyze_financial_data(args.income, args.expenses, args.emi))
    /\ UNCHANGED <<args, gen, raw, parsed>>

ApplyCalculate ==
    /\ op = "drawn"
    /\ op' = "calculate_financial_score"
    /\ resp' = Ok(calculate_financial_score(args.income, args.expenses, args.emi))
    /\ UNCHANGED <<args, gen, raw, parsed>>

ScorerNext == ApplyAnalyze \/ ApplyCalculate

ScorerSpec == ScorerInit /\ [][ScorerNext]_vars

\* --------------------------------------------------- Spec: the handlers
Init ==
    /\ op = "idle"
    /\ args = NoArgs
    /\ gen = "not_called"
    /\ raw = <<>>
    /\ parsed = <<"none">>
    /\ resp = NoResp

FinancialScore ==
    /\ op = "idle"
    /\ \E i \in Amounts, e \in Amounts, m \in Amounts :
         /\ args' = ScoreArgs(i, e, m)
         /\ resp' = financial_score(args')
    /\ op' = "financial_score"
    /\ UNCHANGED <<gen, raw, parsed>>

GoalTexts == {<<>>, <<"a">>}
GoalGen == {GenFails, GenNone} \cup {GenText(t) : t \in GoalTexts}

GoalPlanner ==
    /\ op = "idle"
    /\ \E i \in Amounts, e \in Amounts, m \in Amounts,
          ga \in GoalAmounts, y \in Years, g \in GoalGen :
         LET data == [income |-> i, expenses |-> e, emi |-> m,
                      goal_amount |-> ga, years |-> y]
             r == goal_planner(data, g)
         IN  /\ args' = data
             /\ gen' = IF r.called THEN g.kind ELSE "not_called"
             /\ raw' = IF r.called THEN g.text ELSE <<>>
             /\ resp' = r.resp
    /\ op' = "goal_planner"
    /\ UNCHANGED parsed

Chat ==
    /\ op = "idle"
    /\ \E g \in ChatGen :
         LET r == chat_with_sahaai(g)
         IN  /\ gen' = g.kind
             /\ raw' = g.text
             /\ parsed' = r.parsed
             /\ args' = r.args
             /\ resp' = r.resp
    /\ op' = "chat"

Next == FinancialScore \/ GoalPlanner \/ Chat

Spec == Init /\ [][Next]_vars

\* ================================================================ claims
Valid == args.income >= 0 /\ args.expenses >= 0 /\ args.emi >= 0
Savings == args.income - args.expenses - args.emi
Scored == op = "calculate_financial_score" /\ resp.status = 200
Analyzed == op = "analyze_financial_data" /\ resp.status = 200

\* C1: whatever the inputs, zero and negative ones included, the score that
\* calculate_financial_score returns is an integer from 0 to 100.
C1_ScoreInRange ==
    op = "calculate_financial_score" =>
        resp.status = 200 /\ resp.body.score \in 0..100

\* A zero income and a negative emi, scored 50.
C1_Witness ==
    Scored /\ args.income = 0 /\ args.emi < 0 /\ resp.body.score = 50

\* C2: in both scorers dti_percent is never negative, and it is 0 whenever
\* income <= 0, whatever emi is.
C2_DtiPercentNonNegative ==
    (Scored \/ Analyzed) =>
        /\ FracLE(Zero, resp.body.dti_percent)
        /\ args.income <= 0 => resp.body.dti_percent = Zero

\* C3: for non-negative inputs the score is 100 - A - B - C, A by the savings
\* ratio (30 below 0.10, 15 below 0.20), B by the debt-to-income ratio (25
\* above 0.40, 15 above 0.30), C = 20 for negative savings, both ratios 0 at
\* income 0; (50000, 30000, 5000) scores 100 and (40000, 35000, 10000) 50.
C3_DeductA ==
    IF args.income = 0 \/ 10 * Savings < args.income THEN 30
    ELSE IF 5 * Savings < args.income THEN 15 ELSE 0

C3_DeductB ==
    IF args.income > 0 /\ 10 * args.emi > 4 * args.income THEN 25
    ELSE IF args.income > 0 /\ 10 * args.emi > 3 * args.income THEN 15 ELSE 0

C3_DeductC == IF Savings < 0 THEN 20 ELSE 0

C3_ScoreFormula ==
    (Scored /\ Valid) =>
        /\ resp.body.score = 100 - C3_DeductA - C3_DeductB - C3_DeductC
        /\ args = ScoreArgs(50000, 30000, 5000) => resp.body.score = 100
        /\ args = ScoreArgs(40000, 35000, 10000) => resp.body.score = 50

\* The second scenario: 30 for the savings ratio and 20 for the overspend.
C3_Witness ==
    Scored /\ args = ScoreArgs(40000, 35000, 10000) /\ resp.body.score = 50

\* C4: for non-negative inputs analyze_financial_data reports High exactly
\* when dti > 0.4, Moderate exactly when 0.25 < dti <= 0.4 and Low otherwise
\* (dti = emi / income, 0 at income 0): dti = 0.4 is Moderate, 0.25 is Low.
C4_High == args.income > 0 /\ 5 * args.emi > 2 * args.income
C4_Moderate == args.income > 0 /\ 4 * args.emi > args.income /\ ~C4_High

C4_RiskTiers ==
    (Analyzed /\ Valid) =>
        /\ resp.body.risk_level = "High Risk" <=> C4_High
        /\ resp.body.risk_level = "Moderate Risk" <=> C4_Moderate
        /\ resp.body.risk_level = "Low Risk" <=> ~C4_High /\ ~C4_Moderate
        /\ (args.income > 0 /\ 5 * args.emi = 2 * args.income)
              => resp.body.risk_level = "Moderate Risk"
        /\ (args.income > 0 /\ 4 * args.emi = args.income)
              => resp.body.risk_level = "Low Risk"

\* A debt-to-income ratio of exactly 0.4, reported Moderate.
C4_Witness ==
    /\ Analyzed /\ Valid /\ args.income > 0 /\ 5 * args.emi = 2 * args.income
    /\ resp.body.risk_level = "Moderate Risk"

\* C5: a goal-planner request with positive monthly savings gets a result
\* with required_monthly_saving = goal_amount / (years * 12) and a boolean
\* achievable, true exactly when required_monthly_saving <= monthly savings.
\* Stated for the requests of the data model (amounts >= 0, years >= 1) that
\* the generator answered with a text.
C5_GoalPlan ==
    (op = "goal_planner" /\ Savings > 0 /\ Valid /\ args.years >= 1 /\ gen = "text") =>
        /\ resp.status = 200
        /\ "required_monthly_saving" \in DOMAIN resp.body
        /\ resp.body.required_monthly_saving = Frac(args.goal_amount, args.years * 12)
        /\ "achievable" \in DOMAIN resp.body
        /\ resp.body.achievable =
             FracLE(resp.body.required_monthly_saving, <<Savings, 1>>)

\* C6: a goal-planner request with monthly savings <= 0 gets a normal result
\* with an error field, no exception, and the generator is not invoked.
C6_NoSavings ==
    (op = "goal_planner" /\ Savings <= 0) =>
        /\ resp.status = 200
        /\ "error" \in DOMAIN resp.body
        /\ gen = "not_called"

\* Savings of exactly 0 over 0 years, answered with the error field.
C6_Witness ==
    /\ op = "goal_planner" /\ Savings = 0 /\ args.years = 0 /\ args.income > 0
    /\ resp.status = 200 /\ "error" \in DOMAIN resp.body /\ gen = "not_called"

\* C7: once the Extractor has returned a mapping in which each of income,
\* expenses, emi is absent, null or a number, /chat reaches the Scorer, an
\* absent or null field taken as 0.
C7_Field(d, key) ==
    IF key \in DOMAIN d /\ d[key][1] = "num" THEN d[key][2] ELSE 0

C7_Tolerated(d, key) == key \in DOMAIN d => d[key][1] \in {"null", "num"}

C7_CoercionTotal ==
    (/\ op = "chat" /\ parsed[1] = "ok" /\ parsed[2][1] = "obj"
     /\ \A key \in {KIncome, KExpenses, KEmi} : C7_Tolerated(parsed[2][2], key)) =>
        /\ resp.status = 200
        /\ args = ScoreArgs(C7_Field(parsed[2][2], KIncome),
                            C7_Field(parsed[2][2], KExpenses),
                            C7_Field(parsed[2][2], KEmi))
        /\ resp.body.analysis =
             analyze_financial_data(args.income, args.expenses, args.emi)

\* C8: for a JSON object X, the Extractor returns X both for X's JSON text
\* inside a json fence and for the bare text, also when a string of X
\* holds triple backticks.
C8_RoundTrip ==
    (op = "chat" /\ gen = "text") =>
        \A x \in Objects :
            (raw = Fenced(Dumps(x)) \/ raw = Dumps(x)) =>
                parsed = <<"ok", JObj(ToDict(x))>>

\* C9: in /chat and /financial-score a request whose coerced inputs hold a
\* negative value ends in a validation failure, and no metrics are returned.
C9_NegativesRejected ==
    (/\ op \in {"chat", "financial_score"}
     /\ (args.income < 0 \/ args.expenses < 0 \/ args.emi < 0)) =>
        resp.status # 200

\* C10: the Extractor's failure on empty or blank input (Empty) is of another
\* kind than its failure on text that is not JSON (MalformedJSON, which
\* carries the text): the caller can tell them apart, and neither yields a
\* mapping or default values.
C10_EmptyFailure == chat_with_sahaai(GenText(<<>>))

C10_FailureKinds ==
    (op = "chat" /\ gen = "text" /\ parsed[1] = "err") =>
        /\ resp.status = 500
        /\ args = NoArgs
        /\ Strip(raw) # <<>> =>
             /\ <<parsed[2], parsed[3], parsed[4], parsed[5]>> #
                  <<C10_EmptyFailure.parsed[2], C10_EmptyFailure.parsed[3],
                    C10_EmptyFailure.parsed[4], C10_EmptyFailure.parsed[5]>>
             /\ resp # C10_EmptyFailure.resp

====
